---------------------------- MODULE Spec2Model ----------------------------
(***************************************************************************)
(* A model of the Home component of src/app/page.tsx: the component state  *)
(* (files, selectedFile, terminalOutput, error), the asynchronous folder   *)
(* pick (handleFolderSelect and the recursive readDirectory, one step per  *)
(* await), the row clicks of renderFileTree and the close button.          *)
(***************************************************************************)
EXTENDS Integers, Sequences, FiniteSets, TLC

VARIABLES
    files,          \* useState<FileNode[]>([])
    selectedFile,   \* useState<{name, content} | null>(null)
    terminalOutput, \* useState<string[]>([])
    error,          \* useState<string | null>(null)
    supported,      \* 'showDirectoryPicker' in window
    embedded,       \* window.top !== window.self
    call,           \* the invocations of handleFolderSelect, by start order
    started,        \* how many invocations have started
    lastOk,         \* history: the invocation whose setFiles ran last (0: none)
    lastClick,      \* history: the file node clicked last since the last close
    lastOp          \* history: the step taken last

vars == <<files, selectedFile, terminalOutput, error, supported, embedded,
          call, started, lastOk, lastClick, lastOp>>

----------------------------------------------------------------------------
(* Bounds of the model. *)

\* Invocations of handleFolderSelect in one behaviour.
MaxCalls == 2

\* Entries (files and directories, at all depths) of a generated folder.
MaxNodes == 4

----------------------------------------------------------------------------
(* Values. *)

\* null, and a non-null value v, of a nullable state slot.
Null == << >>
Some(v) == <<v>>

\* marginLeft per level, in px.
IndentPx == 16

MsgUnsupported ==
    "Your browser does not support the File System Access API. Please use a modern browser like Chrome or Edge."
MsgIframe ==
    "This feature cannot be used within an iframe. Please open the application in a new tab."
MsgSecurity ==
    "Cannot access files due to security restrictions. Please try opening the application in a new tab."
MsgFallback == "Failed to open folder. Please try again."

\* new Error(MsgIframe)
IframeError == [name |-> "Error", message |-> MsgIframe]

\* What window.showDirectoryPicker() can reject with: the user dismissing the
\* dialog (an AbortError, with the browser's message or with none) and a
\* security-policy denial.
PickerErrors ==
    { [name |-> "AbortError", message |-> "The user aborted a request."],
      [name |-> "AbortError", message |-> ""],
      [name |-> "SecurityError", message |-> "Must be handling a user gesture."] }

\* What dirHandle.values(), entry.getFile() and file.text() can reject with.
ReadErrors ==
    { [name |-> "NotFoundError", message |-> "The entry was not found."],
      [name |-> "NotReadableError", message |-> ""],
      [name |-> "SecurityError", message |-> "Access denied."] }

----------------------------------------------------------------------------
(* Directory handles: a directory is the sequence of the entries its       *)
(* values() iterator yields, in that order.                                *)

FileEntry(n, t) == [name |-> n, kind |-> "file", text |-> t]
DirEntry(n, es) == [name |-> n, kind |-> "directory", entries |-> es]

FolderEmpty == << >>
FolderFlat == << FileEntry("a.txt", ""), DirEntry("lib", << >>) >>
FolderSrc ==
    << DirEntry("src", << FileEntry("a.txt", "x"),
                          DirEntry("lib", << FileEntry("b.txt", "y") >>) >>) >>

\* The folders the user picks among in Spec.
SampleFolders == {FolderEmpty, FolderFlat, FolderSrc}

Names == {"a", "b"}
Texts == {"", "x"}

RECURSIVE ForestsOfSize(_)
\* The entries of exactly k nodes (the entry and all below it).
EntriesOfSize(k) ==
    IF k = 1
    THEN {FileEntry(n, t) : n \in Names, t \in Texts}
             \cup {DirEntry(n, << >>) : n \in Names}
    ELSE {DirEntry(n, es) : n \in Names, es \in ForestsOfSize(k - 1)}

\* The directories of exactly n nodes.
ForestsOfSize(n) ==
    IF n = 0
    THEN {<< >>}
    ELSE UNION { { <<e>> \o rest : e \in EntriesOfSize(k),
                                   rest \in ForestsOfSize(n - k) } : k \in 1..n }

\* The folders the user picks among in SpecTree: every directory of at most
\* MaxNodes entries over Names and Texts.
Handles == UNION { ForestsOfSize(n) : n \in 0..MaxNodes }

----------------------------------------------------------------------------
(* handleFolderSelect and readDirectory. *)

Calls == 1..MaxCalls

\* The record of a step: the operation, the invocation it belongs to (0: none)
\* and its argument (the row clicked; the recursion depth a read failed at).
Op(op, p, arg) == [op |-> op, p |-> p, arg |-> arg]

\* An invocation that has not started.
IdleCall == [pc |-> "idle", dirHandle |-> Null, stack |-> << >>, err |-> Null]

\* An activation of readDirectory(dirHandle): entries is the local array, i the
\* number of entries the iterator has yielded and the body has finished, at the
\* await the activation is suspended at.
Frame(dir) == [dir |-> dir, i |-> 0, at |-> "next", entries |-> << >>]

\* A variant of isFileSystemApiSupported that finds the capability everywhere.
isFileSystemApiSupportedAlways == TRUE

isFileSystemApiSupported == supported

\* error.message || 'Failed to open folder. Please try again.'
MessageOr(e) == IF e.message # "" THEN e.message ELSE MsgFallback

\* The catch block: the message the banner is set to.
CatchMessage(e) ==
    IF e.name = "SecurityError" THEN MsgSecurity ELSE MessageOr(e)

\* A variant of handleFolderSelect that also closes the open file.
handleFolderSelectDeselecting(p) ==
    /\ p = started + 1
    /\ p <= MaxCalls
    /\ started' = p
    /\ selectedFile' = Null
    /\ IF ~isFileSystemApiSupported
       THEN /\ error' = Some(MsgUnsupported)
            /\ call' = [call EXCEPT ![p].pc = "unsupported"]
       ELSE IF embedded
       THEN /\ error' = Some(CatchMessage(IframeError))
            /\ call' = [call EXCEPT ![p].pc = "embedded",
                                    ![p].err = Some(IframeError)]
       ELSE /\ error' = Null
            /\ call' = [call EXCEPT ![p].pc = "picker"]
    /\ lastOp' = Op("handleFolderSelect", p, 0)
    /\ UNCHANGED <<files, terminalOutput, supported, embedded, lastOk,
                   lastClick>>

\* The click on "Open Folder", up to the first await.
handleFolderSelect(p) ==
    /\ p = started + 1
    /\ p <= MaxCalls
    /\ started' = p
    /\ IF ~isFileSystemApiSupported
       THEN /\ error' = Some(MsgUnsupported)
            /\ call' = [call EXCEPT ![p].pc = "unsupported"]
       ELSE IF embedded
       THEN /\ error' = Some(CatchMessage(IframeError))
            /\ call' = [call EXCEPT ![p].pc = "embedded",
                                    ![p].err = Some(IframeError)]
       ELSE /\ error' = Null
            /\ call' = [call EXCEPT ![p].pc = "picker"]
    /\ lastOp' = Op("handleFolderSelect", p, 0)
    /\ UNCHANGED <<files, selectedFile, terminalOutput, supported, embedded,
                   lastOk, lastClick>>

\* showDirectoryPicker() resolves with dirHandle, one of folders;
\* readDirectory(dirHandle) runs to its first await, the iterator's next().
PickerResolve(p, folders) ==
    /\ call[p].pc = "picker"
    /\ \E dirHandle \in folders :
          call' = [call EXCEPT ![p].pc = "reading",
                               ![p].dirHandle = Some(dirHandle),
                               ![p].stack = <<Frame(dirHandle)>>]
    /\ lastOp' = Op("PickerResolve", p, 0)
    /\ UNCHANGED <<files, selectedFile, terminalOutput, error, supported,
                   embedded, started, lastOk, lastClick>>

\* showDirectoryPicker() rejects with e: the catch block.
PickerReject(p, e) ==
    /\ call[p].pc = "picker"
    /\ error' = Some(CatchMessage(e))
    /\ call' = [call EXCEPT ![p].pc = "rejected", ![p].err = Some(e)]
    /\ lastOp' = Op("PickerReject", p, 0)
    /\ UNCHANGED <<files, selectedFile, terminalOutput, supported, embedded,
                   started, lastOk, lastClick>>

\* The node readDirectory pushes for a directory entry whose recursive call
\* returned children.
DirNode(entry, children) ==
    [name |-> entry.name, type |-> "directory", children |-> children]

\* The node readDirectory pushes for a file entry whose text is content.
FileNode(entry, content) ==
    [name |-> entry.name, type |-> "file", content |-> content]

\* A variant of Pushed that puts node at the front of the array.
PushedFront(stack, node) ==
    LET d == Len(stack)
    IN  [stack EXCEPT ![d].entries = <<node>> \o @,
                      ![d].i = @ + 1,
                      ![d].at = "next"]

\* The stack after its innermost activation pushed node and went on to await
\* the iterator's next().
Pushed(stack, node) ==
    LET d == Len(stack)
    IN  [stack EXCEPT ![d].entries = Append(@, node),
                      ![d].i = @ + 1,
                      ![d].at = "next"]

\* The stack after its innermost activation returned its entries to the
\* activation that awaits it.
Returned(stack) ==
    LET d == Len(stack)
        parent == stack[d - 1]
    IN  Pushed(SubSeq(stack, 1, d - 1),
               DirNode(parent.dir[parent.i + 1], stack[d].entries))

\* A variant of IterNext in which only the invocation started last calls
\* setFiles: the result of an earlier one is dropped.
IterNextLatestOnly(p) ==
    /\ call[p].pc = "reading"
    /\ LET stack == call[p].stack
           d == Len(stack)
           top == stack[d]
       IN  /\ top.at = "next"
           /\ IF top.i < Len(top.dir)
              THEN /\ call' = [call EXCEPT ![p].stack =
                         IF top.dir[top.i + 1].kind = "file"
                         THEN [stack EXCEPT ![d].at = "getFile"]
                         ELSE Append(stack, Frame(top.dir[top.i + 1].entries))]
                   /\ UNCHANGED <<files, lastOk>>
              ELSE IF d > 1
              THEN /\ call' = [call EXCEPT ![p].stack = Returned(stack)]
                   /\ UNCHANGED <<files, lastOk>>
              ELSE /\ files' = IF p = started THEN top.entries ELSE files
                   /\ lastOk' = p
                   /\ call' = [call EXCEPT ![p].pc = "ok", ![p].stack = << >>]
    /\ lastOp' = Op("IterNext", p, 0)
    /\ UNCHANGED <<selectedFile, terminalOutput, error, supported, embedded,
                   started, lastClick>>

\* The iterator's next() resolves in the innermost activation of
\* readDirectory: with a file entry, with a directory entry, or done. Done in
\* the outermost activation returns filesData to handleFolderSelect, which
\* calls setFiles.
IterNext(p) ==
    /\ call[p].pc = "reading"
    /\ LET stack == call[p].stack
           d == Len(stack)
           top == stack[d]
       IN  /\ top.at = "next"
           /\ IF top.i < Len(top.dir)
              THEN /\ call' = [call EXCEPT ![p].stack =
                         IF top.dir[top.i + 1].kind = "file"
                         THEN [stack EXCEPT ![d].at = "getFile"]
                         ELSE Append(stack, Frame(top.dir[top.i + 1].entries))]
                   /\ UNCHANGED <<files, lastOk>>
              ELSE IF d > 1
              THEN /\ call' = [call EXCEPT ![p].stack = Returned(stack)]
                   /\ UNCHANGED <<files, lastOk>>
              ELSE /\ files' = top.entries
                   /\ lastOk' = p
                   /\ call' = [call EXCEPT ![p].pc = "ok", ![p].stack = << >>]
    /\ lastOp' = Op("IterNext", p, 0)
    /\ UNCHANGED <<selectedFile, terminalOutput, error, supported, embedded,
                   started, lastClick>>

\* entry.getFile() resolves.
GetFile(p) ==
    /\ call[p].pc = "reading"
    /\ LET stack == call[p].stack
           d == Len(stack)
       IN  /\ stack[d].at = "getFile"
           /\ call' = [call EXCEPT ![p].stack = [stack EXCEPT ![d].at = "text"]]
    /\ lastOp' = Op("GetFile", p, 0)
    /\ UNCHANGED <<files, selectedFile, terminalOutput, error, supported,
                   embedded, started, lastOk, lastClick>>

\* file.text() resolves with the file's text.
FileText(p) ==
    /\ call[p].pc = "reading"
    /\ LET stack == call[p].stack
           top == stack[Len(stack)]
           entry == top.dir[top.i + 1]
       IN  /\ top.at = "text"
           /\ call' = [call EXCEPT ![p].stack =
                           Pushed(stack, FileNode(entry, entry.text))]
    /\ lastOp' = Op("FileText", p, 0)
    /\ UNCHANGED <<files, selectedFile, terminalOutput, error, supported,
                   embedded, started, lastOk, lastClick>>

\* A variant of ReadReject whose catch block stores what the outermost
\* activation had built.
ReadRejectPartial(p, e) ==
    /\ call[p].pc = "reading"
    /\ error' = Some(CatchMessage(e))
    /\ files' = call[p].stack[1].entries
    /\ call' = [call EXCEPT ![p].pc = "failed", ![p].stack = << >>,
                            ![p].err = Some(e)]
    /\ lastOp' = Op("ReadReject", p, Len(call[p].stack))
    /\ UNCHANGED <<selectedFile, terminalOutput, supported, embedded,
                   started, lastOk, lastClick>>

\* The await the innermost activation is suspended at rejects with e: the
\* rejection propagates through every activation to the catch block.
ReadReject(p, e) ==
    /\ call[p].pc = "reading"
    /\ error' = Some(CatchMessage(e))
    /\ call' = [call EXCEPT ![p].pc = "failed", ![p].stack = << >>,
                            ![p].err = Some(e)]
    /\ lastOp' = Op("ReadReject", p, Len(call[p].stack))
    /\ UNCHANGED <<files, selectedFile, terminalOutput, supported, embedded,
                   started, lastOk, lastClick>>

----------------------------------------------------------------------------
(* renderFileTree, the row click and the close button. *)

RECURSIVE renderFileTreeSameLevel(_, _)
\* A variant of renderFileTree that renders the children at their parent's
\* level.
renderFileTreeSameLevel(nodes, level) ==
    IF nodes = << >>
    THEN << >>
    ELSE LET node == Head(nodes)
         IN  <<[node |-> node, level |-> level, marginLeft |-> level * IndentPx]>>
                 \o (IF "children" \in DOMAIN node
                     THEN renderFileTreeSameLevel(node.children, level)
                     ELSE << >>)
                 \o renderFileTreeSameLevel(Tail(nodes), level)

RECURSIVE renderFileTree(_, _)
\* The rows (the Buttons) in document order: each node's Button, then the rows
\* of node.children when it has any.
renderFileTree(nodes, level) ==
    IF nodes = << >>
    THEN << >>
    ELSE LET node == Head(nodes)
         IN  <<[node |-> node, level |-> level, marginLeft |-> level * IndentPx]>>
                 \o (IF "children" \in DOMAIN node
                     THEN renderFileTree(node.children, level + 1)
                     ELSE << >>)
                 \o renderFileTree(Tail(nodes), level)

\* {renderFileTree(files)}
rows == renderFileTree(files, 0)

\* node.content || ''
ContentOr(node) ==
    IF "content" \in DOMAIN node /\ node.content # "" THEN node.content ELSE ""

\* A variant of Clicked that opens directory rows too.
ClickedAnyRow(node) == Some([name |-> node.name, content |-> ContentOr(node)])

\* What the onClick of a row sets selectedFile to.
Clicked(node) ==
    IF node.type = "file"
    THEN Some([name |-> node.name, content |-> ContentOr(node)])
    ELSE selectedFile

\* The click on row k.
selectFile(k) ==
    /\ k \in 1..Len(rows)
    /\ selectedFile' = Clicked(rows[k].node)
    /\ lastClick' = IF rows[k].node.type = "file"
                    THEN Some(rows[k].node)
                    ELSE lastClick
    /\ lastOp' = Op("selectFile", 0, k)
    /\ UNCHANGED <<files, terminalOutput, error, supported, embedded, call,
                   started, lastOk>>

\* What the close button sets selectedFile to.
Closed == Null

\* A variant of closeFile that also empties the tree.
closeFileAndTree ==
    /\ selectedFile # Null
    /\ selectedFile' = Closed
    /\ files' = << >>
    /\ lastClick' = Null
    /\ lastOp' = Op("closeFile", 0, 0)
    /\ UNCHANGED <<terminalOutput, error, supported, embedded, call, started,
                   lastOk>>

\* The click on the close button, which is rendered while a file is selected.
closeFile ==
    /\ selectedFile # Null
    /\ selectedFile' = Closed
    /\ lastClick' = Null
    /\ lastOp' = Op("closeFile", 0, 0)
    /\ UNCHANGED <<files, terminalOutput, error, supported, embedded, call,
                   started, lastOk>>

----------------------------------------------------------------------------
(* Specifications. *)

Init ==
    /\ files = << >>
    /\ selectedFile = Null
    /\ terminalOutput = << >>
    /\ error = Null
    /\ supported \in BOOLEAN
    /\ embedded \in BOOLEAN
    /\ call = [p \in Calls |-> IdleCall]
    /\ started = 0
    /\ lastOk = 0
    /\ lastClick = Null
    /\ lastOp = Op("Init", 0, 0)

\* The component, with overlapping picks among SampleFolders.
Next ==
    \/ \E p \in Calls : handleFolderSelect(p)
    \/ \E p \in Calls : PickerResolve(p, SampleFolders)
    \/ \E p \in Calls : \E e \in PickerErrors : PickerReject(p, e)
    \/ \E p \in Calls : IterNext(p)
    \/ \E p \in Calls : GetFile(p)
    \/ \E p \in Calls : FileText(p)
    \/ \E p \in Calls : \E e \in ReadErrors : ReadReject(p, e)
    \/ \E k \in 1..Len(rows) : selectFile(k)
    \/ closeFile

Spec == Init /\ [][Next]_vars

\* One pick of any folder of Handles, read without a failure, and its rows.
NextTree ==
    \/ handleFolderSelect(1)
    \/ PickerResolve(1, Handles)
    \/ IterNext(1)
    \/ GetFile(1)
    \/ FileText(1)

SpecTree == Init /\ [][NextTree]_vars

----------------------------------------------------------------------------
(* What the claims are stated with. *)

RECURSIVE Mirrors(_, _)
\* nodes mirrors the directory dir: one node per entry, in the entries' order
\* and with their names; a file entry's node is a file node with the file's
\* text as content and no children; a directory entry's node is a directory
\* node with no content whose children mirror the directory.
Mirrors(nodes, dir) ==
    /\ Len(nodes) = Len(dir)
    /\ \A i \in 1..Len(dir) :
          /\ nodes[i].name = dir[i].name
          /\ IF dir[i].kind = "file"
             THEN /\ DOMAIN nodes[i] = {"name", "type", "content"}
                  /\ nodes[i].type = "file"
                  /\ nodes[i].content = dir[i].text
             ELSE /\ DOMAIN nodes[i] = {"name", "type", "children"}
                  /\ nodes[i].type = "directory"
                  /\ Mirrors(nodes[i].children, dir[i].entries)

RECURSIVE PathsOf(_)
\* The nodes of a tree, each as its path: the index of its ancestor (or of
\* itself) at every level, from the top.
PathsOf(nodes) ==
    UNION { {<<i>>} \cup
            (IF "children" \in DOMAIN nodes[i]
             THEN { <<i>> \o q : q \in PathsOf(nodes[i].children) }
             ELSE {}) : i \in 1..Len(nodes) }

RECURSIVE NodeAt(_, _)
\* The node of the tree at a path.
NodeAt(nodes, path) ==
    IF Len(path) = 1
    THEN nodes[path[1]]
    ELSE NodeAt(nodes[path[1]].children, Tail(path))

\* a comes before b in depth-first pre-order: a is a proper ancestor of b, or
\* at the first level they differ a is in the earlier sibling's subtree.
Before(a, b) ==
    \/ /\ Len(a) < Len(b)
       /\ \A j \in 1..Len(a) : a[j] = b[j]
    \/ \E j \in 1..Len(a) :
          /\ j <= Len(b)
          /\ a[j] < b[j]
          /\ \A l \in 1..(j - 1) : a[l] = b[l]

\* The file nodes of a tree.
FileNodesOf(nodes) ==
    { NodeAt(nodes, q) : q \in { r \in PathsOf(nodes) :
                                    NodeAt(nodes, r).type = "file" } }

\* A pick is in flight: it awaits the picker or the recursive read.
InFlight(p) == call[p].pc \in {"picker", "reading"}

\* The steps of a pick.
PickOps == {"handleFolderSelect", "PickerResolve", "PickerReject", "IterNext",
            "GetFile", "FileText", "ReadReject"}

----------------------------------------------------------------------------
(* The claims. *)

\* C1: when the picker rejects with the user's cancellation (an AbortError),
\* handleFolderSelect ends with error null and files as it was.
C1_CancelIsSilent ==
    [][ ( /\ lastOp'.op = "PickerReject"
          /\ call'[lastOp'.p].err[1].name = "AbortError" )
        => ( error' = Null /\ files' = files ) ]_vars

\* C1, the part the code keeps: a rejected picker leaves files as it was.
C1_CancelKeepsFiles ==
    [][ lastOp'.op = "PickerReject" => files' = files ]_vars

\* C2: a step in which the recursive read fails leaves files as it was and
\* sets the error banner; and files changes only in the step that ends a read
\* in which nothing failed, to a tree that mirrors the whole picked folder.
C2_FailedReadCommitsNothing ==
    [][ /\ lastOp'.op = "ReadReject" => ( files' = files /\ error' # Null )
        /\ files' # files =>
              /\ lastOp'.op = "IterNext"
              /\ call[lastOp'.p].pc = "reading"
              /\ call'[lastOp'.p].pc = "ok"
              /\ Mirrors(files', call[lastOp'.p].dirHandle[1]) ]_vars

\* C2's case: a read that had got below the top level failed while files held
\* the tree of an earlier pick; the banner is set and that tree is kept.
C2_Witness ==
    /\ lastOp.op = "ReadReject"
    /\ lastOp.arg > 1
    /\ call[lastOp.p].pc = "failed"
    /\ files # << >>
    /\ error # Null

\* C3: where the capability is unsupported or the page is embedded, no
\* invocation ever reaches the picker or a directory, files stays as it was
\* (empty), and once "Open Folder" was clicked the banner holds the
\* corresponding message.
C3_PickerOnlyWhenAllowed ==
    (~supported \/ embedded) =>
        /\ \A p \in Calls :
              /\ call[p].pc \in {"idle", "unsupported", "embedded"}
              /\ call[p].dirHandle = Null
              /\ call[p].stack = << >>
        /\ files = << >>
        /\ started > 0 =>
              error = Some(IF ~supported THEN MsgUnsupported ELSE MsgIframe)

\* C3's case: "Open Folder" was clicked in a browser without the capability.
C3_Witness ==
    /\ ~supported
    /\ started > 0
    /\ call[1].pc = "unsupported"
    /\ error = Some(MsgUnsupported)

\* C4: selectedFile is null when no file row was clicked since the last close
\* (or since the start), and otherwise exactly the {name, content} of the file
\* node clicked last.
C4_EditorShowsLastClicked ==
    selectedFile =
        IF lastClick = Null
        THEN Null
        ELSE Some([name |-> lastClick[1].name, content |-> lastClick[1].content])

\* C4's case: a file row was clicked and the editor shows the file of that
\* row; here a file whose content is the empty string.
C4_Witness ==
    /\ lastOp.op = "selectFile"
    /\ rows[lastOp.arg].node.type = "file"
    /\ rows[lastOp.arg].node.content = ""
    /\ selectedFile = Some([name |-> rows[lastOp.arg].node.name, content |-> ""])
    /\ Cardinality(FileNodesOf(files)) > 0

\* C5: when a pick ends with its read complete, the tree readDirectory
\* returned (which setFiles stored) mirrors the picked directory handle.
C5_TreeMirrorsHandle ==
    \A p \in Calls :
        (call[p].pc = "ok" /\ lastOk = p) => Mirrors(files, call[p].dirHandle[1])

\* C5's case: the folder a/{a ("x"), b/{b ("")}} was read to its end.
C5_Witness ==
    /\ call[1].pc = "ok"
    /\ call[1].dirHandle[1] =
          << DirEntry("a", << FileEntry("a", "x"),
                              DirEntry("b", << FileEntry("b", "") >>) >>) >>
    /\ Len(files) = 1
    /\ Len(files[1].children) = 2
    /\ files[1].children[1] = [name |-> "a", type |-> "file", content |-> "x"]

\* C6: files holds the tree of the pick whose read completed last, whichever
\* pick was started first.
C6_LastCompletionWins ==
    lastOk # 0 => Mirrors(files, call[lastOk].dirHandle[1])

\* C6's case: two picks overlapped and both succeeded, the one started second
\* completing first; files holds the tree of the one started first, and not
\* the other's.
C6_Witness ==
    /\ call[1].pc = "ok"
    /\ call[2].pc = "ok"
    /\ lastOk = 1
    /\ Mirrors(files, call[1].dirHandle[1])
    /\ ~Mirrors(files, call[2].dirHandle[1])

\* C7: a click on the close button leaves selectedFile null and files, error
\* and terminalOutput as they were, so that every row (the closed file's row
\* among them) is still rendered.
C7_CloseOnlyDeselects ==
    [][ lastOp'.op = "closeFile" =>
            /\ selectedFile' = Null
            /\ files' = files
            /\ error' = error
            /\ terminalOutput' = terminalOutput
            /\ rows' = rows ]_vars

\* C7's case: a file of the tree was closed; its node is still in the tree.
C7_Witness ==
    /\ lastOp.op = "closeFile"
    /\ selectedFile = Null
    /\ \E n \in FileNodesOf(files) : n.name = "b.txt"
    /\ error # Null

\* C8: the rows of renderFileTree are the nodes of the tree in depth-first
\* pre-order, each node once, each row at the level of its node's depth (the
\* top level being 0) and indented by that level.
C8_RowsArePreOrder ==
    LET P == PathsOf(files)
    IN  /\ Len(rows) = Cardinality(P)
        /\ \A q \in P :
              LET k == 1 + Cardinality({r \in P : Before(r, q)})
              IN  /\ k <= Len(rows)
                  /\ rows[k].node = NodeAt(files, q)
                  /\ rows[k].level = Len(q) - 1
                  /\ rows[k].marginLeft = IndentPx * (Len(q) - 1)

\* C8's case: the tree a/{a, b/{b}} is rendered as four rows at the levels
\* 0, 1, 1, 2.
C8_Witness ==
    /\ Len(files) = 1
    /\ Len(rows) = 4
    /\ [k \in 1..4 |-> rows[k].level] = <<0, 1, 1, 2>>
    /\ [k \in 1..4 |-> rows[k].node.name] = <<"a", "a", "b", "b">>
    /\ [k \in 1..4 |-> rows[k].node.type] =
          <<"directory", "file", "directory", "file">>

\* C9: whenever no pick is in flight, a non-null error banner implies that
\* the pick started last failed. Stated for the behaviours in which every
\* picker call resolved with a folder, so that what violates it is a failed
\* read of an earlier pick, and no cancelled or refused picker call.
C9_BannerIsOfLatestPick ==
    ( /\ \A p \in Calls : ~InFlight(p) /\ call[p].pc # "rejected"
      /\ error # Null )
    => ( /\ started > 0
         /\ call[started].pc \in {"unsupported", "embedded", "rejected", "failed"} )

\* C10: no step of a pick changes selectedFile.
C10_PickKeepsSelection ==
    [][ lastOp'.op \in PickOps => selectedFile' = selectedFile ]_vars

\* C10's case: a pick replaced files while a file was showing, and the editor
\* shows a {name, content} that is of no file node of the tree now displayed.
C10_Witness ==
    /\ lastOp.op = "IterNext"
    /\ call[lastOp.p].pc = "ok"
    /\ selectedFile # Null
    /\ files # << >>
    /\ \A n \in FileNodesOf(files) :
          ~(n.name = selectedFile[1].name /\ n.content = selectedFile[1].content)

=============================================================================
